---- MODULE Spec2Model ----
(***************************************************************************)
(* Model of the lextok tokenizer combinators (lib/lextok.h) over the       *)
(* CT::string_view cursor (lib/ct_lib.h).                                  *)
(*                                                                         *)
(* A string_view is a (str, sz) pair.  The pointer str is modelled as the  *)
(* array it points into (obj, mem) plus an offset off; the array holds the *)
(* characters of a NUL terminated C string, so index Len(mem) reads NUL.   *)
(* Characters are their ASCII codes.                                       *)
(***************************************************************************)
EXTENDS Integers, Sequences, FiniteSets, TLC

RECURSIVE Apply(_, _)
RECURSIVE accumulation_size(_, _)
RECURSIVE run_tokenizers(_, _)
RECURSIVE exactly_loop(_, _, _)

\* ---------------------------------------------------------------- bounds
MaxLen == 4
MaxCalls == 2
MaxConcLen == 2

\* ------------------------------------------------------------ characters
NUL == 0
LF == 10
SP == 32
CH_0 == 48
CH_MINUS == 45
CH_1 == 49
CH_9 == 57
CH_A == 65
CH_C == 67
CH_F == 70
CH_Z == 90
CH_a == 97
CH_f == 102
CH_z == 122

Min(a, b) == IF a < b THEN a ELSE b

\* ------------------------------------------------- CT::string_view model
sv_default == [obj |-> "null", mem |-> <<>>, off |-> 0, sz |-> 0]

sv_cstr(o, cstr) == [obj |-> o, mem |-> cstr, off |-> 0, sz |-> Len(cstr)]

\* the slice constructor without std::min
sv_slice_unclamped(sv, count) == [sv EXCEPT !.sz = count]

sv_slice(sv, count) == [sv EXCEPT !.sz = Min(count, sv.sz)]

remove_prefix(sv, n) ==
  [sv EXCEPT !.sz = IF n > sv.sz THEN 0 ELSE sv.sz - n, !.off = sv.off + n]

\* operator[] that indexes from the start of the array, not from str
index_from_array(sv, i) ==
  IF i < Len(sv.mem) THEN sv.mem[i + 1] ELSE NUL

\* operator[]: no bounds check; the array ends with the NUL terminator
index(sv, i) ==
  IF sv.off + i < Len(sv.mem) THEN sv.mem[sv.off + i + 1] ELSE NUL

\* the characters a view denotes
Content(sv) == [i \in 1..sv.sz |-> index(sv, i - 1)]

\* one read of sv[i], remembered with its position relative to the view
Rd(sv, i) == [idx |-> sv.off + i, oob |-> i >= sv.sz]

\* starts_with that compares the first unit only
starts_with_first_unit(sv, prefix) ==
  IF prefix.sz > sv.sz
  THEN [b |-> FALSE, reads |-> {}]
  ELSE IF prefix.sz = 0
  THEN [b |-> TRUE, reads |-> {}]
  ELSE [b |-> index(prefix, 0) = index(sv, 0), reads |-> {Rd(sv, 0)}]

starts_with(sv, prefix) ==
  IF prefix.sz > sv.sz
  THEN [b |-> FALSE, reads |-> {}]
  ELSE LET mism == {i \in 0..(prefix.sz - 1) : index(prefix, i) # index(sv, i)}
           first == CHOOSE i \in mism : \A j \in mism : i <= j
       IN IF mism = {}
          THEN [b |-> TRUE, reads |-> {Rd(sv, i) : i \in 0..(prefix.sz - 1)}]
          ELSE [b |-> FALSE, reads |-> {Rd(sv, i) : i \in 0..first}]

starts_with_char(sv, prefix) ==
  IF sv.sz = 0
  THEN [b |-> FALSE, reads |-> {}]
  ELSE [b |-> prefix = index(sv, 0), reads |-> {Rd(sv, 0)}]

\* ------------------------------------------------------- Tok::Token model
NoToken == [has |-> FALSE, sv |-> sv_default]
SomeToken(sv) == [has |-> TRUE, sv |-> sv]

\* What one call of a tokenizer produces: the returned Token, the cursor it
\* leaves, the observer calls it made (in order), the cursor reads it made,
\* and whether the call never returns.
Ret(tk, in, lg, rd) ==
  [token |-> tk, input |-> in, log |-> lg, reads |-> rd, hang |-> FALSE]
Hang(in, lg, rd) ==
  [token |-> NoToken, input |-> in, log |-> lg, reads |-> rd, hang |-> TRUE]

\* a call func(token); func 0 is mapper::none
Call(func, tk) == IF func = 0 THEN <<>> ELSE <<[func |-> func, token |-> tk]>>

\* ------------------------------------------------------------ predicates
Pred(t, ch) ==
  CASE t.pred = "alphabet" -> (ch >= CH_a /\ ch <= CH_z) \/ (ch >= CH_A /\ ch <= CH_Z)
    [] t.pred = "lower_alphabet" -> ch >= CH_a /\ ch <= CH_z
    [] t.pred = "upper_alphabet" -> ch >= CH_A /\ ch <= CH_Z
    [] t.pred = "digit" -> ch >= CH_0 /\ ch <= CH_9
    [] t.pred = "hex_digit" -> (ch >= CH_0 /\ ch <= CH_9) \/ (ch >= CH_a /\ ch <= CH_f)
                                 \/ (ch >= CH_A /\ ch <= CH_F)
    [] t.pred = "whitespace" -> ch = SP \/ ch = 9 \/ ch = LF \/ ch = 13
    [] t.pred = "any" -> TRUE
    [] t.pred = "newline" -> ch = 13 \/ ch = LF
    [] t.pred = "char_token" -> t.c = ch

\* ------------------------------------------------------- atomic matchers
\* single_char_tokenizer without the size() == 0 test
single_char_tokenizer_unchecked(t, input) ==
  IF Pred(t, index(input, 0))
  THEN LET token == sv_slice(input, 1)
       IN Ret(SomeToken(token), remove_prefix(input, 1),
              Call(t.func, token), {Rd(input, 0)})
  ELSE Ret(NoToken, input, <<>>, {Rd(input, 0)})

single_char_tokenizer(t, input) ==
  IF input.sz = 0
  THEN Ret(NoToken, input, <<>>, {})
  ELSE IF Pred(t, index(input, 0))
       THEN LET token == sv_slice(input, 1)
            IN Ret(SomeToken(token), remove_prefix(input, 1),
                   Call(t.func, token), {Rd(input, 0)})
       ELSE Ret(NoToken, input, <<>>, {Rd(input, 0)})

str_token(t, input) ==
  LET str == sv_cstr("literal", t.str)
      sw == starts_with(input, str)
  IN IF ~sw.b
     THEN Ret(NoToken, input, <<>>, sw.reads)
     ELSE Ret(SomeToken(str), remove_prefix(input, str.sz),
              Call(t.func, str), sw.reads)

\* a scan that tests the first member of char_group only
GroupScan_first_member(char_group, input) ==
  LET seen == IF char_group = <<>> THEN {} ELSE {1}
  IN [hit |-> \E i \in seen : starts_with_char(input, char_group[i]).b,
      reads |-> UNION {starts_with_char(input, char_group[i]).reads : i \in seen}]

\* the members of char_group the range-for visits before one matches
GroupScan(char_group, input) ==
  LET hits == {i \in 1..Len(char_group) : starts_with_char(input, char_group[i]).b}
      first == CHOOSE i \in hits : \A j \in hits : i <= j
      seen == IF hits = {} THEN 1..Len(char_group) ELSE 1..first
  IN [hit |-> hits # {},
      reads |-> UNION {starts_with_char(input, char_group[i]).reads : i \in seen}]

any_of(t, input) ==
  LET scan == GroupScan(t.char_group, input)
      token == sv_slice(input, 1)
  IN IF scan.hit
     THEN Ret(SomeToken(token), remove_prefix(input, 1),
              Call(t.func, token), scan.reads)
     ELSE Ret(NoToken, input, <<>>, scan.reads)

none_of(t, input) ==
  LET scan == GroupScan(t.char_group, input)
      token == sv_slice(input, 1)
  IN IF scan.hit
     THEN Ret(NoToken, input, <<>>, scan.reads)
     ELSE Ret(SomeToken(token), remove_prefix(input, 1),
              Call(t.func, token), scan.reads)

\* ------------------------------------------------------------ repetition
\* accumulation_size with an if in place of the while
accumulation_size_once(tokenizer, input) ==
  IF input.sz = 0
  THEN [sz |-> 0, log |-> <<>>, reads |-> {}, hang |-> FALSE]
  ELSE LET r == Apply(tokenizer, input)
       IN IF r.hang \/ ~r.token.has
          THEN [sz |-> 0, log |-> r.log, reads |-> r.reads, hang |-> r.hang]
          ELSE [sz |-> r.token.sv.sz, log |-> r.log, reads |-> r.reads,
                hang |-> FALSE]

\* impl::accumulation_size: runs on its own copy of the cursor.  An
\* iteration that succeeds and leaves the copy as it found it on a non-empty
\* view is repeated identically forever (tokenizers are deterministic).
accumulation_size(tokenizer, input) ==
  IF input.sz = 0
  THEN [sz |-> 0, log |-> <<>>, reads |-> {}, hang |-> FALSE]
  ELSE LET r == Apply(tokenizer, input)
       IN IF r.hang
          THEN [sz |-> 0, log |-> r.log, reads |-> r.reads, hang |-> TRUE]
          ELSE IF ~r.token.has
          THEN [sz |-> 0, log |-> r.log, reads |-> r.reads, hang |-> FALSE]
          ELSE IF r.input = input
          THEN [sz |-> 0, log |-> r.log, reads |-> r.reads, hang |-> TRUE]
          ELSE LET rest == accumulation_size(tokenizer, r.input)
               IN [sz |-> r.token.sv.sz + rest.sz,
                   log |-> r.log \o rest.log,
                   reads |-> r.reads \cup rest.reads,
                   hang |-> rest.hang]

many(t, input) ==
  LET acc == accumulation_size(t.tokenizer, input)
      token == sv_slice(input, acc.sz)
  IN IF acc.hang
     THEN Hang(input, acc.log, acc.reads)
     ELSE Ret(SomeToken(token), remove_prefix(input, acc.sz),
              acc.log \o Call(t.func, token), acc.reads)

\* the for loop of Tok::exactly with i <= n as its test
exactly_loop_inclusive(t, input, i) ==
  IF i > t.n
  THEN [ok |-> TRUE, input |-> input, token_size |-> 0,
        log |-> <<>>, reads |-> {}, hang |-> FALSE]
  ELSE LET r == Apply(t.tokenizer, input)
       IN IF r.hang \/ ~r.token.has
          THEN [ok |-> FALSE, input |-> r.input, token_size |-> 0,
                log |-> r.log, reads |-> r.reads, hang |-> r.hang]
          ELSE LET rest == exactly_loop(t, r.input, i + 1)
               IN [ok |-> rest.ok, input |-> rest.input,
                   token_size |-> r.token.sv.sz + rest.token_size,
                   log |-> r.log \o rest.log,
                   reads |-> r.reads \cup rest.reads,
                   hang |-> rest.hang]

\* iterations i .. n-1 of the for loop of Tok::exactly
exactly_loop(t, input, i) ==
  IF i >= t.n
  THEN [ok |-> TRUE, input |-> input, token_size |-> 0,
        log |-> <<>>, reads |-> {}, hang |-> FALSE]
  ELSE LET r == Apply(t.tokenizer, input)
       IN IF r.hang \/ ~r.token.has
          THEN [ok |-> FALSE, input |-> r.input, token_size |-> 0,
                log |-> r.log, reads |-> r.reads, hang |-> r.hang]
          ELSE LET rest == exactly_loop(t, r.input, i + 1)
               IN [ok |-> rest.ok, input |-> rest.input,
                   token_size |-> r.token.sv.sz + rest.token_size,
                   log |-> r.log \o rest.log,
                   reads |-> r.reads \cup rest.reads,
                   hang |-> rest.hang]

\* exactly without input = input_tokenize on failure
exactly_no_rollback(t, input) ==
  LET input_tokenize == input
      l == exactly_loop(t, input, 0)
      token == sv_slice(input_tokenize, l.token_size)
  IN IF l.hang
     THEN Hang(l.input, l.log, l.reads)
     ELSE IF ~l.ok
     THEN Ret(NoToken, l.input, l.log, l.reads)
     ELSE Ret(SomeToken(token), l.input, l.log \o Call(t.func, token), l.reads)

exactly(t, input) ==
  LET input_tokenize == input
      l == exactly_loop(t, input, 0)
      token == sv_slice(input_tokenize, l.token_size)
  IN IF l.hang
     THEN Hang(l.input, l.log, l.reads)
     ELSE IF ~l.ok
     THEN Ret(NoToken, input_tokenize, l.log, l.reads)
     ELSE Ret(SomeToken(token), l.input, l.log \o Call(t.func, token), l.reads)

\* at_least_one that builds its token from input in place of input_tokenize
at_least_one_from_current(t, input) ==
  LET input_tokenize == input
      first == Apply(t.tokenizer, input)
      acc == accumulation_size(t.tokenizer, first.input)
      token == sv_slice(first.input, acc.sz + first.token.sv.sz)
  IN IF first.hang
     THEN Hang(first.input, first.log, first.reads)
     ELSE IF ~first.token.has
     THEN Ret(NoToken, input_tokenize, first.log, first.reads)
     ELSE IF acc.hang
     THEN Hang(first.input, first.log \o acc.log, first.reads \cup acc.reads)
     ELSE Ret(SomeToken(token), remove_prefix(first.input, acc.sz),
              first.log \o acc.log \o Call(t.func, token),
              first.reads \cup acc.reads)

\* at_least_one that accumulates from input_tokenize, so that the first
\* match is made twice
at_least_one_recount(t, input) ==
  LET input_tokenize == input
      first == Apply(t.tokenizer, input)
      acc == accumulation_size(t.tokenizer, input_tokenize)
      token == sv_slice(input_tokenize, acc.sz)
  IN IF first.hang
     THEN Hang(first.input, first.log, first.reads)
     ELSE IF ~first.token.has
     THEN Ret(NoToken, input_tokenize, first.log, first.reads)
     ELSE IF acc.hang
     THEN Hang(first.input, first.log \o acc.log, first.reads \cup acc.reads)
     ELSE Ret(SomeToken(token), remove_prefix(input_tokenize, acc.sz),
              first.log \o acc.log \o Call(t.func, token),
              first.reads \cup acc.reads)

at_least_one(t, input) ==
  LET input_tokenize == input
      first == Apply(t.tokenizer, input)
      acc == accumulation_size(t.tokenizer, first.input)
      token == sv_slice(input_tokenize, acc.sz + first.token.sv.sz)
  IN IF first.hang
     THEN Hang(first.input, first.log, first.reads)
     ELSE IF ~first.token.has
     THEN Ret(NoToken, input_tokenize, first.log, first.reads)
     ELSE IF acc.hang
     THEN Hang(first.input, first.log \o acc.log, first.reads \cup acc.reads)
     ELSE Ret(SomeToken(token), remove_prefix(first.input, acc.sz),
              first.log \o acc.log \o Call(t.func, token),
              first.reads \cup acc.reads)

\* maybe that passes the inner failure on
maybe_failing(t, input) ==
  LET r == Apply(t.tokenizer, input)
  IN IF r.hang \/ ~r.token.has
     THEN r
     ELSE Ret(r.token, r.input, r.log \o Call(t.func, r.token.sv), r.reads)

maybe(t, input) ==
  LET r == Apply(t.tokenizer, input)
  IN IF r.hang
     THEN r
     ELSE IF ~r.token.has
     THEN Ret(SomeToken(sv_default), r.input,
              r.log \o Call(t.func, sv_default), r.reads)
     ELSE Ret(r.token, r.input, r.log \o Call(t.func, r.token.sv), r.reads)

\* ---------------------------------------------------------- composition
\* the braced initialiser with every tokenizer called on the cursor the
\* first one was called on
run_tokenizers_same_cursor(tokenizers, input) ==
  IF tokenizers = <<>>
  THEN [tokens |-> <<>>, input |-> input, log |-> <<>>, reads |-> {},
        hang |-> FALSE]
  ELSE LET r == Apply(Head(tokenizers), input)
           rest == run_tokenizers(Tail(tokenizers), input)
       IN IF r.hang
          THEN [tokens |-> <<>>, input |-> r.input, log |-> r.log,
                reads |-> r.reads, hang |-> TRUE]
          ELSE [tokens |-> <<r.token>> \o rest.tokens,
                input |-> IF Tail(tokenizers) = <<>> THEN r.input ELSE rest.input,
                log |-> r.log \o rest.log, reads |-> r.reads \cup rest.reads,
                hang |-> rest.hang]

\* the braced initialiser of tokens[N]: every tokenizer of the tuple is
\* called, left to right, each on the cursor the previous one left
run_tokenizers(tokenizers, input) ==
  IF tokenizers = <<>>
  THEN [tokens |-> <<>>, input |-> input, log |-> <<>>, reads |-> {},
        hang |-> FALSE]
  ELSE LET r == Apply(Head(tokenizers), input)
           rest == run_tokenizers(Tail(tokenizers), r.input)
       IN IF r.hang
          THEN [tokens |-> <<>>, input |-> r.input, log |-> r.log,
                reads |-> r.reads, hang |-> TRUE]
          ELSE [tokens |-> <<r.token>> \o rest.tokens, input |-> rest.input,
                log |-> r.log \o rest.log, reads |-> r.reads \cup rest.reads,
                hang |-> rest.hang]

SumSizes(tokens) ==
  LET RECURSIVE Sum(_)
      Sum(i) == IF i = 0 THEN 0 ELSE tokens[i].sv.sz + Sum(i - 1)
  IN Sum(Len(tokens))

\* apply_tokenizers without input = input_tokenize on failure
apply_tokenizers_no_rollback(tokenizer, input) ==
  LET input_tokenize == input
      run == run_tokenizers(tokenizer, input)
      tokens == run.tokens
  IN IF run.hang
     THEN Hang(run.input, run.log, run.reads)
     ELSE IF \E i \in 1..Len(tokens) : ~tokens[i].has
     THEN Ret(NoToken, run.input, run.log, run.reads)
     ELSE Ret(SomeToken(sv_slice(input_tokenize, SumSizes(tokens))),
              run.input, run.log, run.reads)

apply_tokenizers(tokenizer, input) ==
  LET input_tokenize == input
      run == run_tokenizers(tokenizer, input)
      tokens == run.tokens
  IN IF run.hang
     THEN Hang(run.input, run.log, run.reads)
     ELSE IF \E i \in 1..Len(tokens) : ~tokens[i].has
     THEN Ret(NoToken, input_tokenize, run.log, run.reads)
     ELSE Ret(SomeToken(sv_slice(input_tokenize, SumSizes(tokens))),
              run.input, run.log, run.reads)

sequence(t, input) == apply_tokenizers(t.tokenizer_tuple, input)

\* map_seq that calls func whether or not seq matched
map_seq_always(t, input) ==
  LET input_tokenize == input
      r == Apply(t.seq, input)
  IN IF r.hang
     THEN r
     ELSE IF ~r.token.has
     THEN Ret(NoToken, input_tokenize, r.log \o Call(t.func, sv_default), r.reads)
     ELSE Ret(r.token, r.input, r.log \o Call(t.func, r.token.sv), r.reads)

map_seq(t, input) ==
  LET input_tokenize == input
      r == Apply(t.seq, input)
  IN IF r.hang
     THEN r
     ELSE IF ~r.token.has
     THEN Ret(NoToken, input_tokenize, r.log, r.reads)
     ELSE Ret(r.token, r.input, r.log \o Call(t.func, r.token.sv), r.reads)

\* operator| that calls both sides and returns the longer match
alternation_longest(t, input) ==
  LET first == Apply(t.tl, input)
      second == Apply(t.tr, input)
  IN IF first.hang
     THEN first
     ELSE IF first.token.has
               /\ ~(~second.hang /\ second.token.has
                      /\ second.token.sv.sz > first.token.sv.sz)
     THEN first
     ELSE [second EXCEPT !.log = first.log \o second.log,
                         !.reads = first.reads \cup second.reads]

\* operator| that returns the left result whatever it is
alternation_no_fallback(t, input) == Apply(t.tl, input)

\* operator| that calls both sides before it looks at the left result
alternation_eager(t, input) ==
  LET first == Apply(t.tl, input)
      second == Apply(t.tr, input)
  IN IF first.hang
     THEN first
     ELSE IF first.token.has
     THEN [first EXCEPT !.log = first.log \o second.log,
                        !.reads = first.reads \cup second.reads]
     ELSE [second EXCEPT !.log = first.log \o second.log,
                         !.reads = first.reads \cup second.reads]

\* operator|
alternation(t, input) ==
  LET first == Apply(t.tl, input)
      second == Apply(t.tr, first.input)
  IN IF first.hang \/ first.token.has
     THEN first
     ELSE [second EXCEPT !.log = first.log \o second.log,
                         !.reads = first.reads \cup second.reads]

\* calling a tokenizer value
Apply(t, input) ==
  CASE t.kind = "single_char" -> single_char_tokenizer(t, input)
    [] t.kind = "str_token" -> str_token(t, input)
    [] t.kind = "any_of" -> any_of(t, input)
    [] t.kind = "none_of" -> none_of(t, input)
    [] t.kind = "many" -> many(t, input)
    [] t.kind = "exactly" -> exactly(t, input)
    [] t.kind = "at_least_one" -> at_least_one(t, input)
    [] t.kind = "maybe" -> maybe(t, input)
    [] t.kind = "sequence" -> sequence(t, input)
    [] t.kind = "map_seq" -> map_seq(t, input)
    [] t.kind = "alternation" -> alternation(t, input)

\* ------------------------------------------------- tokenizer constructors
SingleChar(p, c, f) == [kind |-> "single_char", pred |-> p, c |-> c, func |-> f]
StrToken(s, f) == [kind |-> "str_token", str |-> s, func |-> f]
AnyOf(g, f) == [kind |-> "any_of", char_group |-> g, func |-> f]
NoneOf(g, f) == [kind |-> "none_of", char_group |-> g, func |-> f]
Many(x, f) == [kind |-> "many", tokenizer |-> x, func |-> f]
Exactly(x, n, f) == [kind |-> "exactly", tokenizer |-> x, n |-> n, func |-> f]
AtLeastOne(x, f) == [kind |-> "at_least_one", tokenizer |-> x, func |-> f]
Maybe(x, f) == [kind |-> "maybe", tokenizer |-> x, func |-> f]
MapSeq(x, f) == [kind |-> "map_seq", seq |-> x, func |-> f]
Sequence(ts) == [kind |-> "sequence", tokenizer_tuple |-> ts]
Alt(l, r) == [kind |-> "alternation", tl |-> l, tr |-> r]

\* ------------------------------------------- the tokenizers and inputs run
PredNames == {"alphabet", "lower_alphabet", "upper_alphabet", "digit",
              "hex_digit", "whitespace", "any", "newline"}

Strings(chars, n) == UNION {[1..k -> chars] : k \in 0..n}

\* characters of the buffers the atomic matchers are run on
WideChars == {CH_a, CH_Z, CH_1, LF, SP}
\* characters of the buffers the composed tokenizers are run on
NarrowChars == {CH_a, CH_1}

Groups == {<<>>, <<CH_a>>, <<CH_1, CH_a>>, <<CH_Z, LF>>}
Literals == {<<>>, <<CH_a>>, <<CH_a, CH_1>>, <<CH_1, CH_a, CH_Z>>, <<SP, LF>>}

\* every atomic matcher, carrying observer f
Atoms(f) ==
  {SingleChar(p, NUL, f) : p \in PredNames}
    \cup {SingleChar("char_token", c, f) : c \in WideChars}
    \cup {StrToken(s, f) : s \in Literals}
    \cup {AnyOf(g, f) : g \in Groups}
    \cup {NoneOf(g, f) : g \in Groups}

\* the atomic matchers the combinators are composed from
Core(f) ==
  {SingleChar("digit", NUL, f), SingleChar("char_token", CH_a, f),
   StrToken(<<CH_a, CH_1>>, f), StrToken(<<>>, f), NoneOf(<<CH_a>>, f)}

\* the single character matchers among them
Units(f) == {SingleChar("digit", NUL, f), SingleChar("char_token", CH_a, f)}

Counts == {0, 1, 2}

\* one combinator with observer g around each tokenizer of xs
Unary(xs, g) ==
  {Many(x, g) : x \in xs} \cup {AtLeastOne(x, g) : x \in xs}
    \cup {Maybe(x, g) : x \in xs} \cup {MapSeq(x, g) : x \in xs}
    \cup {Exactly(x, n, g) : x \in xs, n \in Counts}

Seq2(xs, ys) == {Sequence(<<x, y>>) : x \in xs, y \in ys}
Seq3(xs, ys, zs) == {Sequence(<<x, y, z>>) : x \in xs, y \in ys, z \in zs}
Alts(xs, ys) == {Alt(x, y) : x \in xs, y \in ys}

Composites ==
  Unary(Core(1), 4)
    \cup Seq2(Core(1), Core(2))
    \cup Seq3(Core(1), Core(2), Core(3))
    \cup Alts(Core(1), Core(2))
    \cup Unary(Unary(Core(1), 4), 5)
    \cup Unary(Seq2(Core(1), Core(2)), 4)
    \cup Unary(Alts(Core(1), Core(2)), 4)
    \cup Seq2(Unary(Core(1), 4), Core(2))
    \cup Seq2(Core(1), Unary(Core(2), 4))
    \cup Alts(Unary(Core(1), 4), Core(2))
    \cup Alts(Core(1), Unary(Core(2), 4))
    \cup Alts(Seq2(Core(1), Core(3)), Core(2))
    \cup Seq2(Alts(Core(1), Core(2)), Core(3))
    \cup Seq3(Units(1), {MapSeq(s, 4) : s \in Seq2(Core(2), Core(3))}, Units(5))

\* the composition of test_real_world_match.cpp, test_drivers[3]; observer 1
\* is the one on char_token('-'), observer 2 the one on at_least_one
Temperature ==
  Sequence(<<Maybe(SingleChar("char_token", CH_MINUS, 1), 0),
             AtLeastOne(SingleChar("digit", NUL, 0), 2),
             Alt(SingleChar("char_token", CH_C, 0),
                 SingleChar("char_token", CH_F, 0))>>)

\* characters of the buffers Temperature is run on
TemperatureChars == {CH_MINUS, CH_1, CH_9, CH_C, CH_F}

\* ------------------------------------------------------------------ state
VARIABLES
  tokenizer,   \* the tokenizer value the caller built
  input,       \* the caller's cursor (Tok::Input)
  before,      \* the cursor as it was when the last call started
  token,       \* the Token the last call returned
  log,         \* the observer calls the last call made, in order
  reads,       \* the cursor reads the last call made
  hang,        \* the last call did not return
  calls,       \* number of calls made on the cursor
  threads,     \* per thread: its cursor, its position in the call, its token
  frames       \* the automatic variables of the call each thread is in

vars == <<tokenizer, input, before, token, log, reads, hang, calls,
          threads, frames>>

Init ==
  /\ \/ /\ tokenizer \in Atoms(1)
        /\ \E s \in Strings(WideChars, MaxLen) : input = sv_cstr("input", s)
     \/ /\ tokenizer \in Composites
        /\ \E s \in Strings(NarrowChars, MaxLen) : input = sv_cstr("input", s)
     \/ /\ tokenizer = Temperature
        /\ \E s \in Strings(TemperatureChars, MaxLen) : input = sv_cstr("input", s)
  /\ before = input
  /\ token = NoToken
  /\ log = <<>>
  /\ reads = {}
  /\ hang = FALSE
  /\ calls = 0
  /\ threads = <<>>
  /\ frames = <<>>

\* token = tokenizer(input)
Match ==
  /\ calls < MaxCalls
  /\ ~hang
  /\ LET r == Apply(tokenizer, input)
     IN /\ before' = input
        /\ input' = r.input
        /\ token' = r.token
        /\ log' = r.log
        /\ reads' = r.reads
        /\ hang' = r.hang
  /\ calls' = calls + 1
  /\ UNCHANGED <<tokenizer, threads, frames>>

Next == Match

Spec == Init /\ [][Next]_vars

\* ------------------------------------- two threads, one tokenizer value
\* Two threads call the same tokenizer value, each on a cursor of its own.
\* A step is one statement of apply_tokenizers, many or accumulation_size,
\* or one call of an atomic matcher; steps of the two threads interleave.
Threads == {1, 2}

\* input_tokenize, tokens[N], the by-value input of accumulation_size and
\* token_size have automatic storage: each thread has them in its own frame
Frame_static(self) == 1

Frame(self) == self

\* the tokenizer values the threads share
ConcTokenizers == Seq2(Core(1), Core(2)) \cup {Many(x, 4) : x \in Core(1)}

InitConc ==
  /\ tokenizer \in ConcTokenizers
  /\ input = sv_default
  /\ before = sv_default
  /\ token = NoToken
  /\ log = <<>>
  /\ reads = {}
  /\ hang = FALSE
  /\ calls = 0
  /\ \E s \in [Threads -> Strings(NarrowChars, MaxConcLen)] :
       threads = [self \in Threads |->
                   [pc |-> "begin", input |-> sv_cstr("input", s[self]),
                    start |-> sv_cstr("input", s[self]), token |-> NoToken,
                    log |-> <<>>, mixed |-> FALSE]]
  /\ frames = [f \in Threads |->
                [input_tokenize |-> sv_default, tokens |-> <<>>, i |-> 0,
                 copy |-> sv_default, token_size |-> 0]]

\* the thread takes a step while another thread is inside its call
Mixed(self) ==
  \/ threads[self].mixed
  \/ \E o \in Threads \ {self} : threads[o].pc \notin {"begin", "done"}

\* apply_tokenizers: const auto input_tokenize = input
ApplyTokenizersEnter(self) ==
  /\ tokenizer.kind = "sequence"
  /\ threads[self].pc = "begin"
  /\ frames' = [frames EXCEPT ![Frame(self)] =
                  [@ EXCEPT !.input_tokenize = threads[self].input,
                            !.tokens = <<>>, !.i = 1]]
  /\ threads' = [threads EXCEPT ![self].pc = "tokens",
                                ![self].mixed = Mixed(self)]
  /\ UNCHANGED <<tokenizer, input, before, token, log, reads, hang, calls>>

\* apply_tokenizers: the next element of tokens[N], std::get<I>(tokenizer)(input)
ApplyTokenizersCall(self) ==
  LET f == frames[Frame(self)]
      ts == tokenizer.tokenizer_tuple
  IN /\ threads[self].pc = "tokens"
     /\ f.i <= Len(ts)
     /\ LET r == Apply(ts[f.i], threads[self].input)
        IN /\ frames' = [frames EXCEPT ![Frame(self)] =
                          [@ EXCEPT !.tokens = Append(f.tokens, r.token),
                                    !.i = f.i + 1]]
           /\ threads' = [threads EXCEPT
                            ![self].input = r.input,
                            ![self].log = @ \o r.log,
                            ![self].pc = IF f.i + 1 > Len(ts) THEN "test"
                                         ELSE "tokens",
                            ![self].mixed = Mixed(self)]
     /\ UNCHANGED <<tokenizer, input, before, token, log, reads, hang, calls>>

\* apply_tokenizers: the failure test, the rollback and the returned token
ApplyTokenizersReturn(self) ==
  LET f == frames[Frame(self)]
  IN /\ threads[self].pc = "test"
     /\ IF \E i \in 1..Len(f.tokens) : ~f.tokens[i].has
        THEN threads' = [threads EXCEPT ![self].input = f.input_tokenize,
                                        ![self].token = NoToken,
                                        ![self].pc = "done",
                                        ![self].mixed = Mixed(self)]
        ELSE threads' = [threads EXCEPT
                          ![self].token =
                            SomeToken(sv_slice(f.input_tokenize, SumSizes(f.tokens))),
                          ![self].pc = "done",
                          ![self].mixed = Mixed(self)]
     /\ UNCHANGED frames
     /\ UNCHANGED <<tokenizer, input, before, token, log, reads, hang, calls>>

\* many: the call accumulation_size(tokenizer, input), input passed by value
ManyEnter(self) ==
  /\ tokenizer.kind = "many"
  /\ threads[self].pc = "begin"
  /\ frames' = [frames EXCEPT ![Frame(self)] =
                  [@ EXCEPT !.copy = threads[self].input, !.token_size = 0]]
  /\ threads' = [threads EXCEPT ![self].pc = "while",
                                ![self].mixed = Mixed(self)]
  /\ UNCHANGED <<tokenizer, input, before, token, log, reads, hang, calls>>

\* accumulation_size: one test of the while condition and one loop body; a
\* body that succeeds and leaves the copy as it was is repeated for ever
AccumulationSizeLoop(self) ==
  LET f == frames[Frame(self)]
      r == Apply(tokenizer.tokenizer, f.copy)
  IN /\ threads[self].pc = "while"
     /\ IF f.copy.sz = 0 \/ ~r.token.has
        THEN /\ threads' = [threads EXCEPT ![self].pc = "return",
                                           ![self].mixed = Mixed(self)]
             /\ UNCHANGED frames
        ELSE IF r.input = f.copy
        THEN /\ threads' = [threads EXCEPT ![self].pc = "hang",
                                           ![self].log = @ \o r.log,
                                           ![self].mixed = Mixed(self)]
             /\ UNCHANGED frames
        ELSE /\ frames' = [frames EXCEPT ![Frame(self)] =
                             [@ EXCEPT !.copy = r.input,
                                       !.token_size = f.token_size + r.token.sv.sz]]
             /\ threads' = [threads EXCEPT ![self].log = @ \o r.log,
                                           ![self].mixed = Mixed(self)]
     /\ UNCHANGED <<tokenizer, input, before, token, log, reads, hang, calls>>

\* many: the token, func(token), input.remove_prefix(token_size) and the
\* return
ManyReturn(self) ==
  LET f == frames[Frame(self)]
  IN /\ threads[self].pc = "return"
     /\ threads' = [threads EXCEPT
                      ![self].token = SomeToken(sv_slice(threads[self].input, f.token_size)),
                      ![self].log =
                        @ \o Call(tokenizer.func, sv_slice(threads[self].input, f.token_size)),
                      ![self].input = remove_prefix(threads[self].input, f.token_size),
                      ![self].pc = "done",
                      ![self].mixed = Mixed(self)]
     /\ UNCHANGED frames
     /\ UNCHANGED <<tokenizer, input, before, token, log, reads, hang, calls>>

NextConc ==
  \E self \in Threads :
    \/ ApplyTokenizersEnter(self)
    \/ ApplyTokenizersCall(self)
    \/ ApplyTokenizersReturn(self)
    \/ ManyEnter(self)
    \/ AccumulationSizeLoop(self)
    \/ ManyReturn(self)

SpecConc == InitConc /\ [][NextConc]_vars

\* ---------------------------------------------------------------- claims
\* the last call returned
Returned == calls > 0 /\ ~hang

\* observers attached anywhere inside tokenizer t
RECURSIVE Observers(_)
Observers(t) ==
  CASE t.kind \in {"single_char", "str_token", "any_of", "none_of"} -> {t.func}
    [] t.kind \in {"many", "exactly", "at_least_one", "maybe"} ->
         {t.func} \cup Observers(t.tokenizer)
    [] t.kind = "map_seq" -> {t.func} \cup Observers(t.seq)
    [] t.kind = "sequence" ->
         UNION {Observers(t.tokenizer_tuple[i]) : i \in DOMAIN t.tokenizer_tuple}
    [] t.kind = "alternation" -> Observers(t.tl) \cup Observers(t.tr)

\* kinds of tokenizer that occur anywhere inside t
RECURSIVE Kinds(_)
Kinds(t) ==
  CASE t.kind \in {"single_char", "str_token", "any_of", "none_of"} -> {t.kind}
    [] t.kind \in {"many", "exactly", "at_least_one", "maybe"} ->
         {t.kind} \cup Kinds(t.tokenizer)
    [] t.kind = "map_seq" -> {t.kind} \cup Kinds(t.seq)
    [] t.kind = "sequence" ->
         {t.kind} \cup UNION {Kinds(t.tokenizer_tuple[i]) : i \in DOMAIN t.tokenizer_tuple}
    [] t.kind = "alternation" -> {t.kind} \cup Kinds(t.tl) \cup Kinds(t.tr)

\* C1: a call that returns NoMatch leaves the cursor's start and length as
\* they were before the call, whatever tokenizer was called.
C1_NoConsumptionOnFailure ==
  (Returned /\ ~token.has) =>
    (input.off = before.off /\ input.sz = before.sz /\ input = before)

\* C1 witness: the first component of a sequence consumed input and fired
\* its observer before a later component failed
C1_Witness ==
  /\ Returned /\ ~token.has
  /\ tokenizer.kind = "sequence"
  /\ Apply(tokenizer.tokenizer_tuple[1], before).token.has
  /\ Apply(tokenizer.tokenizer_tuple[1], before).input.sz < before.sz
  /\ log # <<>>
  /\ input = before

\* C2: a call that returns Matched(S) has advanced the cursor's start by
\* exactly length(S), shortened the remaining length by exactly length(S),
\* and S holds the first length(S) characters of the pre-call input.
C2_ExactConsumptionOnSuccess ==
  (Returned /\ token.has) =>
    /\ input.off = before.off + token.sv.sz
    /\ input.sz = before.sz - token.sv.sz
    /\ token.sv.sz <= before.sz
    /\ Content(token.sv) = Content(sv_slice(before, token.sv.sz))

\* the components of a sequence applied one after the other, each where the
\* previous one stopped, up to the first that fails
RECURSIVE SeqChain(_, _)
SeqChain(ts, in) ==
  IF ts = <<>>
  THEN [ok |-> TRUE, sum |-> 0]
  ELSE LET r == Apply(Head(ts), in)
       IN IF ~r.token.has
          THEN [ok |-> FALSE, sum |-> 0]
          ELSE LET rest == SeqChain(Tail(ts), r.input)
               IN [ok |-> rest.ok, sum |-> r.token.sv.sz + rest.sum]

\* C3: a sequence either has every component succeed, and then the cursor
\* has advanced by the sum of the sub-span lengths, or it returns NoMatch
\* with the cursor exactly the pre-call cursor.
C3_SequenceAtomicity ==
  (Returned /\ tokenizer.kind = "sequence") =>
    LET c == SeqChain(tokenizer.tokenizer_tuple, before)
    IN IF c.ok
       THEN /\ token.has
            /\ input.off = before.off + c.sum
            /\ input.sz = before.sz - c.sum
       ELSE ~token.has /\ input = before

\* C4: when T1 matches, (T1 | T2) returns T1's span, leaves T1's cursor and
\* makes T1's observer calls only: no observer inside T2 fires and T2 reads
\* nothing.
C4_AlternationLeftBias ==
  (Returned /\ tokenizer.kind = "alternation"
     /\ Apply(tokenizer.tl, before).token.has) =>
    LET left == Apply(tokenizer.tl, before)
    IN /\ token = left.token
       /\ input = left.input
       /\ log = left.log
       /\ reads = left.reads
       /\ \A i \in DOMAIN log : log[i].func \notin Observers(tokenizer.tr)

\* C4 witness: T1 matched although T2 alone matches a longer prefix
C4_Witness ==
  /\ Returned /\ tokenizer.kind = "alternation"
  /\ token.has
  /\ Apply(tokenizer.tl, before).token.has
  /\ Apply(tokenizer.tr, before).token.has
  /\ Apply(tokenizer.tr, before).token.sv.sz > token.sv.sz
  /\ Observers(tokenizer.tr) \cap Observers(tokenizer.tl) = {}

C6_Termination == ~hang

\* C7: the cursor always denotes a sub-range of the buffer it was created
\* over, and no read is made at an index at or past the remaining length.
C7_CursorValid ==
  /\ input.off >= 0
  /\ input.off + input.sz <= Len(input.mem)
  /\ \A r \in reads : ~r.oob

\* C8: none_of returns NoMatch on an empty cursor; on a non-empty cursor it
\* returns NoMatch iff the leading unit is in the group, otherwise a
\* length-1 span with the cursor advanced by 1.
C8_NoneOf ==
  (Returned /\ tokenizer.kind = "none_of") =>
    IF before.sz = 0
    THEN ~token.has
    ELSE LET lead == before.mem[before.off + 1]
             member == \E i \in DOMAIN tokenizer.char_group :
                         tokenizer.char_group[i] = lead
         IN IF member
            THEN ~token.has /\ input = before
            ELSE /\ token.has /\ token.sv.sz = 1
                 /\ input.off = before.off + 1
                 /\ input.sz = before.sz - 1

\* the character class each single-char tokenizer is documented to accept
Class(t) ==
  CASE t.pred = "alphabet" -> (CH_a..CH_z) \cup (CH_A..CH_Z)
    [] t.pred = "lower_alphabet" -> CH_a..CH_z
    [] t.pred = "upper_alphabet" -> CH_A..CH_Z
    [] t.pred = "digit" -> CH_0..CH_9
    [] t.pred = "hex_digit" -> (CH_0..CH_9) \cup (CH_a..CH_f) \cup (CH_A..CH_F)
    [] t.pred = "whitespace" -> {SP, 9, LF, 13}
    [] t.pred = "any" -> 0..255
    [] t.pred = "newline" -> {13, LF}
    [] t.pred = "char_token" -> {t.c}

\* C9: a single-char tokenizer returns NoMatch on an empty cursor without
\* reading it; on a non-empty cursor it matches the length-1 span of the
\* leading unit, calls the observer once on it and advances by 1 iff the
\* unit is in its class, and otherwise returns NoMatch, calls no observer
\* and leaves the cursor unchanged.
C9_SingleCharMatch ==
  (Returned /\ tokenizer.kind = "single_char") =>
    IF before.sz = 0
    THEN ~token.has /\ reads = {} /\ log = <<>> /\ input = before
    ELSE IF before.mem[before.off + 1] \in Class(tokenizer)
         THEN /\ token = SomeToken([before EXCEPT !.sz = 1])
              /\ log = <<[func |-> tokenizer.func, token |-> token.sv]>>
              /\ input.off = before.off + 1
              /\ input.sz = before.sz - 1
              /\ input.mem = before.mem
         ELSE ~token.has /\ log = <<>> /\ input = before

\* C9 witness: a second call matches in the middle of the buffer
C9_Witness ==
  /\ Returned /\ tokenizer.kind = "single_char"
  /\ calls = 2 /\ before.off = 1
  /\ token.has /\ input.sz > 0

\* C10: str_token(L) matches iff L is a prefix of the remaining input; then
\* the span has L's length and content, the cursor advances by length(L)
\* and the observer is called once with the span; otherwise the cursor is
\* unchanged and the observer is not called.
C10_LiteralMatch ==
  (Returned /\ tokenizer.kind = "str_token") =>
    LET L == tokenizer.str
        rem == Content(before)
        isPrefix == Len(L) <= Len(rem) /\ \A i \in 1..Len(L) : rem[i] = L[i]
    IN /\ token.has <=> isPrefix
       /\ token.has =>
            /\ token.sv.sz = Len(L)
            /\ Content(token.sv) = L
            /\ input.off = before.off + Len(L)
            /\ input.sz = before.sz - Len(L)
            /\ input.mem = before.mem
            /\ log = <<[func |-> tokenizer.func, token |-> token.sv]>>
       /\ ~token.has => (input = before /\ log = <<>>)

\* C10 witness: a literal of two or more units matched on a longer input
C10_Witness ==
  /\ Returned /\ tokenizer.kind = "str_token"
  /\ token.has /\ token.sv.sz >= 2 /\ input.sz > 0

\* C10 second case: the remaining input is a proper prefix of the literal
C10_ShortInput ==
  /\ Returned /\ tokenizer.kind = "str_token"
  /\ ~token.has /\ before.sz > 0 /\ before.sz < Len(tokenizer.str)
  /\ \A i \in 1..before.sz : Content(before)[i] = tokenizer.str[i]

\* C11: any_of(G) returns a length-1 span and advances the cursor by 1 iff
\* the cursor is non-empty and its leading unit is a member of G; otherwise
\* (empty cursor, empty G, unit not in G) it returns NoMatch and leaves the
\* cursor unchanged.
C11_AnyOf ==
  (Returned /\ tokenizer.kind = "any_of") =>
    LET member == /\ before.sz > 0
                  /\ \E i \in DOMAIN tokenizer.char_group :
                       tokenizer.char_group[i] = before.mem[before.off + 1]
    IN IF member
       THEN /\ token = SomeToken([before EXCEPT !.sz = 1])
            /\ input.off = before.off + 1
            /\ input.sz = before.sz - 1
            /\ input.mem = before.mem
       ELSE ~token.has /\ input = before

\* C11 witness: the unit matched is a later member of the group, on a second
\* call in the middle of the buffer
C11_Witness ==
  /\ Returned /\ tokenizer.kind = "any_of"
  /\ calls = 2 /\ before.off = 1
  /\ token.has
  /\ Len(tokenizer.char_group) >= 2
  /\ tokenizer.char_group[1] # before.mem[before.off + 1]

\* C11 second case: any_of fails on an empty cursor and on an empty group
C11_EmptyCases ==
  /\ Returned /\ tokenizer.kind = "any_of" /\ ~token.has
  /\ before.sz = 0 \/ tokenizer.char_group = <<>>

\* consecutive matches of t from cursor in: their number, the sum of their
\* lengths and the cursor after the last one
RECURSIVE Repeats(_, _)
Repeats(t, in) ==
  LET r == Apply(t, in)
  IN IF r.hang \/ ~r.token.has \/ r.input.sz >= in.sz
     THEN [n |-> 0, len |-> 0, input |-> in]
     ELSE LET rest == Repeats(t, r.input)
          IN [n |-> 1 + rest.n, len |-> r.token.sv.sz + rest.len,
              input |-> rest.input]

\* C12: at_least_one(T) returns NoMatch with the cursor unchanged iff the
\* first application of T fails; otherwise its span starts at the pre-call
\* cursor, covers the first match and every following consecutive match, and
\* the cursor is left at the first unit after the span.
C12_AtLeastOne ==
  (Returned /\ tokenizer.kind = "at_least_one") =>
    LET first == Apply(tokenizer.tokenizer, before)
        more == Repeats(tokenizer.tokenizer, first.input)
    IN IF ~first.token.has
       THEN ~token.has /\ input = before
       ELSE /\ token.has
            /\ token.sv.obj = "input" /\ token.sv.off = before.off
            /\ token.sv.sz = first.token.sv.sz + more.len
            /\ input.off = token.sv.off + token.sv.sz
            /\ input.sz = before.sz - token.sv.sz
            /\ (before.sz = 0 /\ tokenizer.tokenizer.kind
                   \in {"single_char", "any_of", "none_of"}) => FALSE

\* tokenizers that consume at least one unit whenever they match
UnitConsuming(t) ==
  \/ t.kind \in {"single_char", "any_of", "none_of"}
  \/ t.kind = "str_token" /\ Len(t.str) > 0

\* C13: many(T) for a unit-consuming T returns the span of all consecutive
\* matches of T from the pre-call cursor (possibly of length 0), advances
\* the cursor by exactly that length, and then either the cursor is empty or
\* T fails at the new cursor.
C13_ManyGreedy ==
  (Returned /\ tokenizer.kind = "many" /\ UnitConsuming(tokenizer.tokenizer)) =>
    LET T == tokenizer.tokenizer
        all == Repeats(T, before)
    IN /\ token = SomeToken(sv_slice(before, all.len))
       /\ all.len <= before.sz
       /\ input.off = before.off + token.sv.sz
       /\ input.sz = before.sz - token.sv.sz
       /\ input.mem = before.mem
       /\ input.sz = 0 \/ ~Apply(T, input).token.has
       /\ T.kind = "single_char" =>
            /\ \A i \in 1..token.sv.sz : before.mem[before.off + i] \in Class(T)
            /\ input.sz > 0 => input.mem[input.off + 1] \notin Class(T)

\* C13 witness: many stops in the middle of the input after two or more
\* repetitions
C13_Witness ==
  /\ Returned /\ tokenizer.kind = "many" /\ UnitConsuming(tokenizer.tokenizer)
  /\ token.sv.sz >= 2 /\ input.sz > 0
  /\ Repeats(tokenizer.tokenizer, before).n >= 2

\* C13 second case: no repetition matches at a non-empty cursor
C13_ZeroLength ==
  /\ Returned /\ tokenizer.kind = "many" /\ UnitConsuming(tokenizer.tokenizer)
  /\ token.has /\ token.sv.sz = 0 /\ before.sz > 0 /\ input = before

\* n applications of t one after the other, each where the previous one
\* stopped, up to the first that fails
NTimes(t, n) == [i \in 1..n |-> t]

\* C14: exactly(T, N), N >= 1, matches iff T succeeds N times in a row from
\* the pre-call cursor; then the span starts at the pre-call cursor, has the
\* sum of the N sub-span lengths and the cursor has advanced by that sum; if
\* an attempt fails it returns NoMatch, the cursor is the cursor before the
\* first attempt and the observer of exactly is not called.
C14_ExactCount ==
  (Returned /\ tokenizer.kind = "exactly" /\ tokenizer.n >= 1) =>
    LET c == SeqChain(NTimes(tokenizer.tokenizer, tokenizer.n), before)
    IN IF c.ok
       THEN /\ token = SomeToken(sv_slice(before, c.sum))
            /\ token.sv.sz = c.sum
            /\ input.off = before.off + c.sum
            /\ input.sz = before.sz - c.sum
       ELSE /\ ~token.has
            /\ input = before
            /\ \A i \in DOMAIN log : log[i].func # tokenizer.func

\* the calls the last call made to observer f, in order
CallsOf(f) == SelectSeq(log, LAMBDA e : e.func = f)

\* C15: exactly(T, 0) returns a zero-length span on every input, leaves the
\* cursor unchanged and never calls T: no observer inside T fires and the
\* cursor is not read.
C15_ExactlyZero ==
  (calls > 0 /\ tokenizer.kind = "exactly" /\ tokenizer.n = 0) =>
    /\ ~hang
    /\ token.has /\ token.sv.sz = 0
    /\ input = before
    /\ reads = {}
    /\ \A i \in DOMAIN log : log[i].func \notin Observers(tokenizer.tokenizer)

\* C15 witness: T carries an observer and would match at the cursor
C15_Witness ==
  /\ Returned /\ tokenizer.kind = "exactly" /\ tokenizer.n = 0
  /\ before.sz > 0
  /\ Apply(tokenizer.tokenizer, before).token.has
  /\ Apply(tokenizer.tokenizer, before).token.sv.sz >= 1
  /\ Apply(tokenizer.tokenizer, before).log # <<>>
  /\ token.has

\* C16: maybe(T, obs) applies T once; if T matches S it returns S with the
\* cursor advanced by length(S) and calls obs once with S; if T fails it
\* returns a zero-length span, leaves the cursor unchanged and calls obs
\* once with an empty span.
C16_Maybe ==
  (Returned /\ tokenizer.kind = "maybe") =>
    LET r == Apply(tokenizer.tokenizer, before)
    IN /\ log = r.log \o CallsOf(tokenizer.func)
       /\ Len(CallsOf(tokenizer.func)) = 1
       /\ IF r.token.has
          THEN /\ token = r.token
               /\ input.off = before.off + token.sv.sz
               /\ input.sz = before.sz - token.sv.sz
               /\ CallsOf(tokenizer.func)[1].token = token.sv
          ELSE /\ token.has /\ token.sv.sz = 0
               /\ input = before
               /\ CallsOf(tokenizer.func)[1].token.sz = 0

\* C17: map_seq(T, obs) returns the result of T and leaves the cursor where
\* T alone leaves it; obs is called once with T's span when T succeeds and
\* not at all when T fails.
C17_MapSeq ==
  (Returned /\ tokenizer.kind = "map_seq") =>
    LET r == Apply(tokenizer.seq, before)
    IN /\ token = r.token
       /\ input = r.input
       /\ log = r.log \o CallsOf(tokenizer.func)
       /\ CallsOf(tokenizer.func) =
            IF r.token.has
            THEN <<[func |-> tokenizer.func, token |-> r.token.sv]>>
            ELSE <<>>

\* C17 witness: the wrapped sequence matched two or more units
C17_Witness ==
  /\ Returned /\ tokenizer.kind = "map_seq"
  /\ tokenizer.seq.kind = "sequence"
  /\ token.has /\ token.sv.sz >= 2
  /\ Len(CallsOf(tokenizer.func)) = 1

\* C17 second case: the wrapped sequence failed after its first component
\* had matched
C17_Failure ==
  /\ Returned /\ tokenizer.kind = "map_seq"
  /\ tokenizer.seq.kind = "sequence"
  /\ Apply(tokenizer.seq.tokenizer_tuple[1], before).token.sv.sz >= 1
  /\ ~token.has /\ log # <<>> /\ CallsOf(tokenizer.func) = <<>>

\* C18: when T1 fails, (T1 | T2) applies T2 at the cursor T1 was applied at
\* and returns T2's result and cursor; when both fail it returns NoMatch and
\* the cursor is unchanged.
C18_AlternationFallback ==
  (Returned /\ tokenizer.kind = "alternation"
     /\ ~Apply(tokenizer.tl, before).hang
     /\ ~Apply(tokenizer.tl, before).token.has) =>
    LET left == Apply(tokenizer.tl, before)
        right == Apply(tokenizer.tr, before)
    IN /\ token = right.token
       /\ input = right.input
       /\ log = left.log \o right.log
       /\ ~right.token.has => (token = NoToken /\ input = before)

\* C18 witness: T1 failed after consuming input and T2 matched
C18_Witness ==
  /\ Returned /\ tokenizer.kind = "alternation"
  /\ tokenizer.tl.kind = "sequence"
  /\ Apply(tokenizer.tl.tokenizer_tuple[1], before).token.sv.sz >= 1
  /\ ~Apply(tokenizer.tl, before).token.has
  /\ Apply(tokenizer.tl, before).log # <<>>
  /\ token.has /\ token.sv.sz >= 1

\* C18 second case: both sides failed on a non-empty cursor
C18_BothFail ==
  /\ Returned /\ tokenizer.kind = "alternation"
  /\ ~token.has /\ before.sz > 0 /\ input = before

\* C19: the observer of many, at_least_one or exactly is called once per
\* successful application, with the whole accumulated span (it starts at the
\* pre-call cursor and has the length consumed), and is not called when
\* at_least_one or exactly fails.
C19_AggregateObserver ==
  (Returned /\ tokenizer.kind \in {"many", "at_least_one", "exactly"}) =>
    IF token.has
    THEN /\ CallsOf(tokenizer.func) =
              <<[func |-> tokenizer.func, token |-> token.sv]>>
         /\ token.sv.obj = "input" /\ token.sv.mem = before.mem
         /\ token.sv.off = before.off
         /\ token.sv.sz = before.sz - input.sz
    ELSE CallsOf(tokenizer.func) = <<>>

\* C19 witness: three or more repetitions matched, one observer call
C19_Witness ==
  /\ Returned /\ tokenizer.kind \in {"many", "at_least_one"}
  /\ tokenizer.tokenizer.kind = "single_char"
  /\ token.has /\ token.sv.sz >= 3
  /\ Len(CallsOf(tokenizer.func)) = 1

\* C19 second case: exactly failed after its first repetition had matched
C19_Failure ==
  /\ Returned /\ tokenizer.kind = "exactly" /\ tokenizer.n = 2
  /\ Apply(tokenizer.tokenizer, before).token.sv.sz >= 1
  /\ ~token.has /\ log # <<>> /\ CallsOf(tokenizer.func) = <<>>

\* C20: when many or at_least_one repeats a single-char tokenizer carrying
\* an observer and matches k units, that observer is called exactly k times,
\* the i-th time with the length-1 span of the i-th unit.
C20_LeafObserverCount ==
  (Returned /\ tokenizer.kind \in {"many", "at_least_one"}
     /\ tokenizer.tokenizer.kind = "single_char") =>
    LET leaf == CallsOf(tokenizer.tokenizer.func)
        k == IF token.has THEN token.sv.sz ELSE 0
    IN /\ Len(leaf) = k
       /\ \A i \in 1..k :
            leaf[i].token = [before EXCEPT !.off = before.off + i - 1, !.sz = 1]

\* C20 witness: the repetition matched two or more units and was ended by a
\* unit that does not match
C20_Witness ==
  /\ Returned /\ tokenizer.kind \in {"many", "at_least_one"}
  /\ tokenizer.tokenizer.kind = "single_char"
  /\ tokenizer.tokenizer.func # 0
  /\ token.has /\ token.sv.sz >= 2 /\ input.sz > 0

\* the own observer of a tokenizer: the func it was built with (0 when it
\* takes none)
TopFunc(t) == IF t.kind \in {"sequence", "alternation"} THEN 0 ELSE t.func

\* the components of a sequence applied one after the other: for each, the
\* cursor it began at and the token it returned
RECURSIVE SeqParts(_, _)
SeqParts(ts, in) ==
  IF ts = <<>>
  THEN <<>>
  ELSE LET r == Apply(Head(ts), in)
       IN <<[start |-> in, token |-> r.token]>> \o SeqParts(Tail(ts), r.input)

\* what component i consumed: the units from the cursor it began at
SubSpan(parts, i) == sv_slice(parts[i].start, parts[i].token.sv.sz)

\* the characters of the first i sub-spans, in order
RECURSIVE SubSpanJoin(_, _)
SubSpanJoin(parts, i) ==
  IF i = 0 THEN <<>>
  ELSE SubSpanJoin(parts, i - 1) \o Content(SubSpan(parts, i))

\* C21: when a sequence succeeds, its span starts at the pre-call cursor and
\* holds the sub-spans of its components one after the other, and the
\* observer attached to a component (an atomic matcher, a repetition, or a
\* map_seq around a nested sequence) is called once, with the units that
\* component consumed, taken from the cursor position where it began.
C21_SubSpanDelivery ==
  (Returned /\ tokenizer.kind = "sequence" /\ token.has) =>
    LET ts == tokenizer.tokenizer_tuple
        parts == SeqParts(ts, before)
    IN /\ token.sv.obj = before.obj
       /\ token.sv.off = before.off
       /\ Content(token.sv) = SubSpanJoin(parts, Len(parts))
       /\ \A i \in DOMAIN ts :
            TopFunc(ts[i]) # 0 =>
              LET got == CallsOf(TopFunc(ts[i]))
              IN /\ Len(got) = 1
                 /\ Content(got[1].token) = Content(SubSpan(parts, i))
                 /\ got[1].token.obj = "input" =>
                      got[1].token.off = parts[i].start.off

\* C21 witness: a map_seq around a nested sequence stands between two
\* components that each consumed a unit, and its observer received the two
\* units in the middle
C21_Witness ==
  /\ Returned /\ tokenizer.kind = "sequence" /\ token.has
  /\ Len(tokenizer.tokenizer_tuple) = 3
  /\ tokenizer.tokenizer_tuple[2].kind = "map_seq"
  /\ tokenizer.tokenizer_tuple[2].seq.kind = "sequence"
  /\ token.sv.sz = 4
  /\ LET got == CallsOf(tokenizer.tokenizer_tuple[2].func)
     IN /\ Len(got) = 1
        /\ got[1].token.off = before.off + 1
        /\ got[1].token.sz = 2

\* a buffer of the form: optional '-', one or more digits, 'C' or 'F'
TemperatureSign(s) == IF Len(s) > 0 /\ s[1] = CH_MINUS THEN 1 ELSE 0
IsTemperatureInput(s) ==
  LET m == TemperatureSign(s)
  IN /\ Len(s) >= m + 2
     /\ \A i \in (m + 1)..(Len(s) - 1) : s[i] >= CH_0 /\ s[i] <= CH_9
     /\ s[Len(s)] \in {CH_C, CH_F}

\* C22: sequence(maybe(char_token('-', neg)), at_least_one(digit, num),
\* char_token('C') | char_token('F')) on an input of the form optional '-',
\* digits, 'C' or 'F' returns Matched with the whole input as span and an
\* empty remaining cursor; num is called exactly once, with the digit run;
\* neg is called iff the input starts with '-', and then before num.
C22_Temperature ==
  (Returned /\ tokenizer = Temperature /\ IsTemperatureInput(Content(before))) =>
    LET s == Content(before)
        m == TemperatureSign(s)
    IN /\ token.has
       /\ token.sv = before
       /\ input.sz = 0
       /\ Len(CallsOf(2)) = 1
       /\ Content(CallsOf(2)[1].token) = SubSeq(s, m + 1, Len(s) - 1)
       /\ CallsOf(2)[1].token.off = before.off + m
       /\ (CallsOf(1) # <<>>) <=> (m = 1)
       /\ Len(log) = m + 1
       /\ log[Len(log)].func = 2

\* C22 witness: a negative temperature of two digits was matched, neg fired
\* first and num second
C22_Witness ==
  /\ Returned /\ tokenizer = Temperature
  /\ IsTemperatureInput(Content(before))
  /\ TemperatureSign(Content(before)) = 1
  /\ before.sz = 4
  /\ token.has /\ input.sz = 0
  /\ Len(log) = 2 /\ log[1].func = 1 /\ log[2].func = 2
  /\ log[2].token.sz = 2

\* C22, the unsigned case: no '-' in front, neg was not called
C22_Unsigned ==
  /\ Returned /\ tokenizer = Temperature
  /\ IsTemperatureInput(Content(before))
  /\ TemperatureSign(Content(before)) = 0
  /\ token.has /\ input.sz = 0
  /\ Len(log) = 1 /\ log[1].func = 2

\* the units that remain in front of a cursor
Remaining(sv) == SubSeq(sv.mem, sv.off + 1, sv.off + sv.sz)

C24_Isolation ==
  \A self \in DOMAIN threads :
    /\ threads[self].pc = "begin" => threads[self].input = threads[self].start
    /\ threads[self].pc = "hang" => Apply(tokenizer, threads[self].start).hang
    /\ threads[self].pc = "done" =>
         LET alone == Apply(tokenizer, threads[self].start)
         IN /\ ~alone.hang
            /\ threads[self].token = alone.token
            /\ threads[self].input = alone.input
            /\ threads[self].log = alone.log

\* C24 witness: both calls have returned, each took steps while the other
\* was inside its call, one matched and consumed input and the other failed
C24_Witness ==
  /\ DOMAIN threads = Threads
  /\ \A self \in Threads : threads[self].pc = "done" /\ threads[self].mixed
  /\ threads[1].token.has /\ threads[1].input.sz < threads[1].start.sz
  /\ ~threads[2].token.has
  /\ threads[2].start.sz > 0

\* position of the first component of a sequence that fails, the components
\* applied as the code applies them; 0 when none fails
FirstFailure(ts, in) ==
  LET parts == SeqParts(ts, in)
      failed == {i \in DOMAIN parts : ~parts[i].token.has}
  IN IF failed = {} THEN 0 ELSE CHOOSE i \in failed : \A j \in failed : i <= j

\* C25: in a sequence a component is attempted only if every component
\* before it succeeded: when component k is the first to fail, no observer
\* attached to a component after k is called.
C25_SequenceShortCircuit ==
  (Returned /\ tokenizer.kind = "sequence") =>
    LET ts == tokenizer.tokenizer_tuple
        k == FirstFailure(ts, before)
    IN k # 0 =>
         \A j \in (k + 1)..Len(ts) :
           \A e \in DOMAIN log : log[e].func \notin Observers(ts[j])

\* a tokenizer without its own observer
Bare(t) == [t EXCEPT !.func = 0]

\* the tokenizer is sequence(many(T), T) or sequence(at_least_one(T), T) for
\* an atomic T that consumes at least one unit whenever it matches
IsGreedyThenSame(t) ==
  /\ t.kind = "sequence"
  /\ Len(t.tokenizer_tuple) = 2
  /\ t.tokenizer_tuple[1].kind \in {"many", "at_least_one"}
  /\ t.tokenizer_tuple[2].kind \in {"single_char", "str_token", "any_of", "none_of"}
  /\ Bare(t.tokenizer_tuple[1].tokenizer) = Bare(t.tokenizer_tuple[2])
  /\ UnitConsuming(t.tokenizer_tuple[2])

\* C26: for a unit-consuming atomic T, sequence(many(T), T) and
\* sequence(at_least_one(T), T) return NoMatch on every input and leave the
\* cursor unchanged.
C26_GreedyNeverGivesBack ==
  (calls > 0 /\ IsGreedyThenSame(tokenizer)) =>
    (~hang /\ ~token.has /\ input = before)

\* C26 without none_of: the same statement for the tokenizers T that fail on
\* an empty cursor
C26_ExceptNoneOf ==
  (calls > 0 /\ IsGreedyThenSame(tokenizer)
     /\ tokenizer.tokenizer_tuple[2].kind # "none_of") =>
    (~hang /\ ~token.has /\ input = before)

\* C26, the case of the claim: the repetition took two units, so that one
\* unit for the repetition and one for the trailing T would have matched
C26_Case ==
  /\ calls > 0 /\ IsGreedyThenSame(tokenizer)
  /\ tokenizer.tokenizer_tuple[2].kind # "none_of"
  /\ Apply(tokenizer.tokenizer_tuple[1], before).token.sv.sz >= 2
  /\ ~token.has /\ input = before

\* C27: in sequence(T1 | T2, T3), when T1 matches at the start position and
\* T3 fails where T1 stopped, the sequence returns NoMatch with the cursor
\* restored to the start, and T2 is not tried: no observer of T2 is called.
C27_NoBacktrackingAcrossAlternation ==
  (Returned /\ tokenizer.kind = "sequence"
     /\ Len(tokenizer.tokenizer_tuple) = 2
     /\ tokenizer.tokenizer_tuple[1].kind = "alternation") =>
    LET alt == tokenizer.tokenizer_tuple[1]
        T3 == tokenizer.tokenizer_tuple[2]
        left == Apply(alt.tl, before)
    IN (left.token.has /\ ~Apply(T3, left.input).token.has) =>
         /\ ~token.has
         /\ input = before
         /\ \A e \in DOMAIN log : log[e].func \notin Observers(alt.tr)

\* C27 witness: T1 consumed a unit and T3 failed after it, although T2
\* matches at the start and T3 matches where T2 stops
C27_Witness ==
  /\ Returned /\ tokenizer.kind = "sequence"
  /\ Len(tokenizer.tokenizer_tuple) = 2
  /\ tokenizer.tokenizer_tuple[1].kind = "alternation"
  /\ LET alt == tokenizer.tokenizer_tuple[1]
         T3 == tokenizer.tokenizer_tuple[2]
         left == Apply(alt.tl, before)
         right == Apply(alt.tr, before)
     IN /\ left.token.has /\ left.token.sv.sz > 0
        /\ ~Apply(T3, left.input).token.has
        /\ right.token.has
        /\ Apply(T3, right.input).token.has
        /\ Apply(T3, right.input).token.sv.sz > 0
        /\ Observers(alt.tr) \cap (Observers(alt.tl) \cup Observers(T3)) = {}
  /\ ~token.has /\ input = before

\* sequence(T, many(T)), without observers
OneThenMany(T) == Sequence(<<Bare(T), Many(Bare(T), 0)>>)

\* C28: at_least_one(T) and sequence(T, many(T)) agree on every input: both
\* return or neither does, both succeed or both fail, with the same span
\* (start and length) and the same final cursor.
C28_AtLeastOneIsOneThenMany ==
  (calls > 0 /\ tokenizer.kind = "at_least_one") =>
    LET other == Apply(OneThenMany(tokenizer.tokenizer), before)
    IN /\ hang = other.hang
       /\ ~hang => (token = other.token /\ input = other.input)

\* C28 witness: at_least_one of a unit-consuming T matched two or more
\* units and stopped before the end of the input
C28_Witness ==
  /\ Returned /\ tokenizer.kind = "at_least_one"
  /\ UnitConsuming(tokenizer.tokenizer)
  /\ token.has /\ token.sv.sz >= 2
  /\ input.sz > 0

\* C28, the failing case: T does not match at the cursor
C28_Failure ==
  /\ Returned /\ tokenizer.kind = "at_least_one"
  /\ UnitConsuming(tokenizer.tokenizer)
  /\ before.sz > 0
  /\ ~token.has

\* sequence(exactly(T, m), exactly(T, n)), without observers
ExactlyThenExactly(T, m, n) ==
  Sequence(<<Exactly(Bare(T), m, 0), Exactly(Bare(T), n, 0)>>)

\* C29: exactly(T, m + n) and sequence(exactly(T, m), exactly(T, n)) agree
\* on every input for all m, n >= 0: both return or neither does, both
\* succeed or both fail, with the same span and the same final cursor; and
\* exactly(T, 1) succeeds or fails as T does, with a span of the same units
\* and the same final cursor.
C29_ExactlyComposes ==
  (calls > 0 /\ tokenizer.kind = "exactly") =>
    LET T == tokenizer.tokenizer
    IN /\ \A m \in 0..tokenizer.n :
            LET other == Apply(ExactlyThenExactly(T, m, tokenizer.n - m), before)
            IN /\ hang = other.hang
               /\ ~hang => (token = other.token /\ input = other.input)
       /\ tokenizer.n = 1 =>
            LET one == Apply(T, before)
            IN /\ hang = one.hang
               /\ ~hang =>
                    /\ token.has = one.token.has
                    /\ Content(token.sv) = Content(one.token.sv)
                    /\ input = one.input

\* C29 witness: exactly(T, 2) matched two units, which is one match for
\* exactly(T, 1) followed by one for exactly(T, 1)
C29_Witness ==
  /\ Returned /\ tokenizer.kind = "exactly" /\ tokenizer.n = 2
  /\ token.has /\ token.sv.sz >= 2
  /\ Apply(ExactlyThenExactly(tokenizer.tokenizer, 1, 1), before).token.has

\* C29, the failing case: the first match succeeded and the second failed
C29_Failure ==
  /\ Returned /\ tokenizer.kind = "exactly" /\ tokenizer.n = 2
  /\ ~token.has
  /\ Apply(tokenizer.tokenizer, before).token.has
  /\ Apply(tokenizer.tokenizer, before).input.sz < before.sz

\* C29, exactly(T, 1) for a T that hands back the literal's own view
C29_One ==
  /\ Returned /\ tokenizer.kind = "exactly" /\ tokenizer.n = 1
  /\ tokenizer.tokenizer.kind = "str_token"
  /\ token.has /\ token.sv.sz = 2

\* C30: a returned span is never longer than the cursor's remaining length
\* when the call was made; the remaining length after a call, matched or
\* not, is never greater than before it, and so after any number of calls
\* never greater than the length of the buffer.
C30_SpanAndProgressBounds ==
  calls > 0 =>
    /\ token.has => token.sv.sz <= before.sz
    /\ input.sz <= before.sz
    /\ before.sz <= Len(before.mem)
    /\ input.sz <= Len(input.mem)

\* C30 witness: after an earlier call had consumed input, a call matched a
\* span shorter than what remained
C30_Witness ==
  /\ calls >= 2 /\ Returned
  /\ before.sz < Len(before.mem)
  /\ token.has /\ token.sv.sz > 0
  /\ token.sv.sz < before.sz
  /\ input.sz = before.sz - token.sv.sz
====
